---- MODULE Spec2Model ----
(***************************************************************************)
(* The spreadsheet core of cpp-spreadsheet: Sheet (sheet.cpp), Cell and    *)
(* its three Impl variants, and the Formula facade (cell.cpp/formula.cpp). *)
(* Cells are heap objects: the sheet's storage cells_ holds owning         *)
(* pointers, the dependency graph holds raw Cell* in source_cells_ and     *)
(* dependent_cells_.  A pointer is modelled as an address of the heap.     *)
(***************************************************************************)
EXTENDS Integers, Sequences, FiniteSets, TLC

\* ------------------------------------------------------------------ bounds

\* Number of public calls (SetCell / ClearCell / GetValue) in one run.
MaxOps == 2

\* Largest number of cell references in one enumerated formula text.
MaxRefs == 2

\* ------------------------------------------------------------ positions

A1 == <<0, 0>>
B1 == <<0, 1>>
A2 == <<1, 0>>

\* The positions the calls are made on: two rows, two columns of row 0.
Positions == {A1, B1, A2}

\* Position::NONE
NONE == <<-1, -1>>

MAX_ROWS == 16384
MAX_COLS == 16384

\* Position::IsValid
IsValid(pos) ==
    /\ pos[1] >= 0
    /\ pos[2] >= 0
    /\ pos[1] < MAX_ROWS
    /\ pos[2] < MAX_COLS

\* Position::operator<
PosLess(p, q) == p[1] < q[1] \/ (p[1] = q[1] /\ p[2] < q[2])

\* The label of a position as one token of a formula text.
Label(pos) ==
    CASE pos = A1 -> "A1"
      [] pos = B1 -> "B1"
      [] pos = A2 -> "A2"

Labels == {Label(p) : p \in Positions}

PosOfLabel(l) == CHOOSE p \in Positions : Label(p) = l

\* ------------------------------------------------------------------ texts

FORMULA_SIGN == "="
ESCAPE_SIGN == "'"

Digits == {"0", "1", "2", "3", "4", "5", "6", "7", "8", "9"}

DigitVal(c) ==
    CASE c = "0" -> 0 [] c = "1" -> 1 [] c = "2" -> 2 [] c = "3" -> 3
      [] c = "4" -> 4 [] c = "5" -> 5 [] c = "6" -> 6 [] c = "7" -> 7
      [] c = "8" -> 8 [] c = "9" -> 9

\* std::string::substr(1)
Substr1(s) == SubSeq(s, 2, Len(s))


\* ---------------------------------------------------------- formula parser
\* ParseFormulaAST is an external collaborator (FormulaAST.h).  The model's
\* grammar: Sum ::= Atom ("+" Atom)*,  Atom ::= label | "(" Sum ")".
\* ParseSum/ParseAtom return the index after the phrase, 0 when it is malformed.

RECURSIVE ParseSum(_, _), ParseAtom(_, _), ParseTail(_, _)

ParseAtom(e, i) ==
    IF i > Len(e) THEN 0
    ELSE IF e[i] \in Labels THEN i + 1
    ELSE IF e[i] = "(" THEN
        LET j == ParseSum(e, i + 1)
        IN  IF j # 0 /\ j <= Len(e) /\ e[j] = ")" THEN j + 1 ELSE 0
    ELSE 0

ParseTail(e, i) ==
    IF i = 0 THEN 0
    ELSE IF i <= Len(e) /\ e[i] = "+" THEN ParseTail(e, ParseAtom(e, i + 1))
    ELSE i

ParseSum(e, i) == ParseTail(e, ParseAtom(e, i))

\* Whether ParseFormulaAST(expression) returns (TRUE) or throws FormulaException.
Parses(expr) == ParseSum(expr, 1) = Len(expr) + 1

\* The parsed tree of a sum, flattened: its operands left to right.
ParseFormulaAST(expr) == SelectSeq(expr, LAMBDA t : t \in Labels)

RECURSIVE JoinPlus(_)
JoinPlus(ops) ==
    IF Len(ops) = 0 THEN <<>>
    ELSE IF Len(ops) = 1 THEN <<ops[1]>>
    ELSE <<ops[1], "+">> \o JoinPlus(Tail(ops))

\* FormulaAST::PrintFormula: the canonical text, redundant parentheses dropped.
PrintFormula(ast) == JoinPlus(ast)

\* Formula::GetExpression
GetExpression(ast) == PrintFormula(ast)

RECURSIVE SortPositions(_)
SortPositions(S) ==
    IF S = {} THEN <<>>
    ELSE LET m == CHOOSE p \in S : \A q \in S : q = p \/ PosLess(p, q)
         IN  <<m>> \o SortPositions(S \ {m})

\* Formula::GetReferencedCells: sorted, duplicates erased.
FormulaReferencedCells(ast) ==
    SortPositions({PosOfLabel(ast[i]) : i \in 1..Len(ast)})

\* ------------------------------------------------------------------ values
\* CellInterface::Value = std::variant<std::string, double, FormulaError>.

DoubleV(d) == [t |-> "double", d |-> d, s |-> <<>>, e |-> ""]
StringV(s) == [t |-> "string", d |-> 0, s |-> s, e |-> ""]
ErrorV(e) == [t |-> "error", d |-> 0, s |-> <<>>, e |-> e]

\* ------------------------------------------------------------- Cell::Impl
\* kind: which Impl subclass; text: TextImpl::text_; ast: the parsed formula;
\* cache: FormulaImpl::cache_ (<<>> is std::nullopt, <<v>> holds v).

NullImpl == [kind |-> "null", text |-> <<>>, ast |-> <<>>, cache |-> <<>>]
EmptyImpl == [kind |-> "Empty", text |-> <<>>, ast |-> <<>>, cache |-> <<>>]
TextImpl(text) == [kind |-> "Text", text |-> text, ast |-> <<>>, cache |-> <<>>]
FormulaImpl(expression) ==
    [kind |-> "Formula", text |-> <<>>, ast |-> ParseFormulaAST(expression),
     cache |-> <<>>]

\* Impl::GetText of the three variants
ImplGetText(impl) ==
    CASE impl.kind = "Empty" -> <<>>
      [] impl.kind = "Text" -> impl.text
      [] impl.kind = "Formula" -> <<FORMULA_SIGN>> \o GetExpression(impl.ast)

\* Impl::GetReferencedCells of the three variants
ImplGetReferencedCells(impl) ==
    IF impl.kind = "Formula" THEN FormulaReferencedCells(impl.ast) ELSE <<>>

\* TextImpl::GetValue
TextGetValue(impl) ==
    IF Len(impl.text) # 0 /\ impl.text[1] = ESCAPE_SIGN
    THEN StringV(Substr1(impl.text))
    ELSE StringV(impl.text)

\* Impl::InvalidateCache: FormulaImpl resets cache_, the others do nothing.
ImplInvalidateCache(impl) ==
    IF impl.kind = "Formula" THEN [impl EXCEPT !.cache = <<>>] ELSE impl


\* ------------------------------------------------------------------- heap
\* A Cell* is an address; 0 is nullptr.  Enough addresses that operator new
\* never fails within MaxOps calls.

NULL == 0
Addr == 1..(2 * Cardinality(Positions) + MaxOps)

\* F(v), with v evaluated once.
Bind(v, F(_)) == CHOOSE r \in {F(x) : x \in {v}} : TRUE

\* A constructed Cell (Cell::Cell: EmptyImpl, no edges).
NewCellObject ==
    [live |-> TRUE, impl_ |-> EmptyImpl,
     source_cells_ |-> {}, dependent_cells_ |-> {}]

\* The memory of a destroyed Cell (Cell::~Cell = default: the members are
\* destroyed, nobody is told).
FreedObject ==
    [live |-> FALSE, impl_ |-> NullImpl,
     source_cells_ |-> {}, dependent_cells_ |-> {}]

RECURSIVE SetToSeq(_)
SetToSeq(S) ==
    IF S = {} THEN <<>>
    ELSE LET m == CHOOSE x \in S : \A y \in S : x <= y
         IN  <<m>> \o SetToSeq(S \ {m})

\* Free addresses some live cell still points to (dangling pointers).
Dangling(hp) ==
    {a \in Addr : /\ ~hp[a].live
                  /\ \E b \in Addr : /\ hp[b].live
                                     /\ a \in hp[b].source_cells_
                                              \cup hp[b].dependent_cells_}

\* Free addresses nothing points to.  They are interchangeable, so operator
\* new is given one representative of them for a cell at pos: the address
\* numbered like pos when it is among them, else the least of the others.
Fresh(hp) == {a \in Addr : ~hp[a].live} \ Dangling(hp)

Home(pos) == Cardinality({q \in Positions : PosLess(q, pos)}) + 1

FreshFor(fresh, pos) ==
    IF Home(pos) \in fresh THEN Home(pos)
    ELSE CHOOSE a \in fresh : \A b \in fresh : a <= b

\* What the successive std::make_unique<Cell> calls for the positions ps may
\* return: each a fresh address or an address freed earlier that is still
\* pointed to (the allocator may or may not reuse it).
RECURSIVE AllocSeqs(_, _, _)
AllocSeqs(D, fresh, ps) ==
    IF Len(ps) = 0 THEN {<<>>}
    ELSE (IF fresh = {} THEN {}
          ELSE UNION {{<<a>> \o t : t \in AllocSeqs(D, fresh \ {a}, Tail(ps))} :
                        a \in {FreshFor(fresh, Head(ps))}})
         \cup UNION {{<<d>> \o t : t \in AllocSeqs(D \ {d}, fresh, Tail(ps))} : d \in D}

\* ---------------------------------------------------------------- machine
\* The state a call works on: the sheet's storage, the heap, the addresses
\* operator new will hand out, the exception in flight ("none" when there is
\* none) and whether freed memory has been read.

\* depth counts the Cell::Set activations on the call stack; nested_calls and
\* nested_sets record the Sheet::SetCell calls made and the Cell::Set
\* activations entered while one is already running.
Machine(cells, hp, alloc) ==
    [cells_ |-> cells, heap |-> hp, alloc |-> alloc, exc |-> "none", ub |-> FALSE,
     depth |-> 0, nested_calls |-> {}, nested_sets |-> {}, walks |-> <<>>]

Throw(M, e) == [M EXCEPT !.exc = e]

\* The record kept of one traversal: the cells taken past the visited test, in
\* order; those of them that were destroyed when read; the iterations of the
\* loop; whether the loop was cut off at WalkLimit iterations; and, for the
\* cycle check, whether it found this.
NewWalk(kind) ==
    [kind |-> kind, processed |-> <<>>, dead |-> {}, steps |-> 0,
     exhausted |-> FALSE, found |-> FALSE]

\* One iteration that popped cur and found it visited already.
Skipped(walk) == [walk EXCEPT !.steps = @ + 1]

\* One iteration that took cur past the visited test.
Processed(walk, hp, cur) ==
    [walk EXCEPT !.steps = @ + 1,
                 !.processed = Append(@, cur),
                 !.dead = IF hp[cur].live THEN @ ELSE @ \cup {cur}]

\* Every iteration pops one element and only a cell taken past the visited
\* test pushes, at most one element per cell, so a loop that runs longer than
\* this is not going to end.
WalkLimit == (Cardinality(Addr) + 1) * (Cardinality(Addr) + 1)

Visited(walk) == {walk.processed[i] : i \in 1..Len(walk.processed)}

\* Sheet::ResizeIfNeeded: vec.resize(idx + 1) appends value-initialised slots.
ResizeIfNeeded(vec, idx, fill) ==
    IF idx >= Len(vec)
    THEN vec \o [i \in 1..(idx + 1 - Len(vec)) |-> fill]
    ELSE vec

\* Sheet::MaybeIncreaseSizeToIncludePosition
MaybeIncreaseSizeToIncludePosition(cells, pos) ==
    Bind(ResizeIfNeeded(cells, pos[1], <<>>), LAMBDA rows :
        IF pos[2] >= 0
        THEN [r \in 1..Len(rows) |-> ResizeIfNeeded(rows[r], pos[2], NULL)]
        ELSE rows)

\* Sheet::GetCell for a valid position (the caller checks IsValid).
GetCell(cells, pos) ==
    IF pos[1] >= Len(cells) \/ pos[2] >= Len(cells[pos[1] + 1])
    THEN NULL
    ELSE cells[pos[1] + 1][pos[2] + 1]

\* Sheet::GetConcreteCell
GetConcreteCell(cells, pos) == GetCell(cells, pos)

\* Cell::GetText
GetText(hp, c) == ImplGetText(hp[c].impl_)

\* Cell::GetReferencedCells
GetReferencedCells(hp, c) == ImplGetReferencedCells(hp[c].impl_)

\* A cell that never reports being referenced.
IsReferenced_Never(hp, c) == FALSE

\* Cell::IsReferenced
IsReferenced(hp, c) == hp[c].dependent_cells_ # {}

\* ------------------------------------------------ Cell::CheckCircularDependency

\* The seeding loop: <<TRUE, _>> when a seed is this, else the seeded queue.
RECURSIVE SeedQueue(_, _, _, _, _)
\* The seeding loop taking a referenced position without a cell for a cycle.
SeedQueue_AbsentIsCycle(cells, this, new_refs, i, queue) ==
    IF i > Len(new_refs) THEN <<FALSE, queue>>
    ELSE Bind(GetConcreteCell(cells, new_refs[i]), LAMBDA c :
             IF c = NULL \/ c = this THEN <<TRUE, queue>>
             ELSE Bind(Append(queue, c), LAMBDA q :
                      SeedQueue(cells, this, new_refs, i + 1, q)))

SeedQueue(cells, this, new_refs, i, queue) ==
    IF i > Len(new_refs) THEN <<FALSE, queue>>
    ELSE Bind(GetConcreteCell(cells, new_refs[i]), LAMBDA c :
             IF c = NULL THEN SeedQueue(cells, this, new_refs, i + 1, queue)
             ELSE IF c = this THEN <<TRUE, queue>>
             ELSE Bind(Append(queue, c), LAMBDA q :
                      SeedQueue(cells, this, new_refs, i + 1, q)))

\* The breadth-first loop over source_cells_.
RECURSIVE BfsSources(_, _, _, _)
\* The breadth-first loop walking dependent_cells_ as well as source_cells_.
BfsSources_BothWays(hp, this, queue, walk) ==
    IF Len(queue) = 0 THEN walk
    ELSE IF walk.steps >= WalkLimit THEN [walk EXCEPT !.exhausted = TRUE]
    ELSE LET cur == Head(queue)
         IN  IF cur \in Visited(walk)
             THEN Bind(<<Tail(queue), Skipped(walk)>>,
                       LAMBDA n : BfsSources(hp, this, n[1], n[2]))
             ELSE IF cur = this
             THEN [Processed(walk, hp, cur) EXCEPT !.found = TRUE]
             ELSE Bind(<<Tail(queue) \o SetToSeq(hp[cur].source_cells_
                                                     \cup hp[cur].dependent_cells_),
                         Processed(walk, hp, cur)>>,
                       LAMBDA n : BfsSources(hp, this, n[1], n[2]))

\* The walk of the loop so far is walk: its visited set is the cells it has
\* processed.
BfsSources(hp, this, queue, walk) ==
    IF Len(queue) = 0 THEN walk
    ELSE IF walk.steps >= WalkLimit THEN [walk EXCEPT !.exhausted = TRUE]
    ELSE LET cur == Head(queue)
         IN  IF cur \in Visited(walk)
             THEN Bind(<<Tail(queue), Skipped(walk)>>,
                       LAMBDA n : BfsSources(hp, this, n[1], n[2]))
             ELSE IF cur = this
             THEN [Processed(walk, hp, cur) EXCEPT !.found = TRUE]
             ELSE Bind(<<Tail(queue) \o SetToSeq(hp[cur].source_cells_),
                         Processed(walk, hp, cur)>>,
                       LAMBDA n : BfsSources(hp, this, n[1], n[2]))

\* The check without its breadth-first loop: only direct self-reference.
CheckCircularDependency_SeedsOnly(M, this, new_refs) ==
    [NewWalk("check") EXCEPT
        !.found = SeedQueue(M.cells_, this, new_refs, 1, <<>>)[1]]

\* Cell::CheckCircularDependency: the walk it made; found is what it returns.
CheckCircularDependency(M, this, new_refs) ==
    Bind(SeedQueue(M.cells_, this, new_refs, 1, <<>>), LAMBDA seeded :
        IF seeded[1] THEN [NewWalk("check") EXCEPT !.found = TRUE]
        ELSE BfsSources(M.heap, this, seeded[2], NewWalk("check")))

\* A finished traversal goes on record; reading a destroyed cell is undefined.
EndWalk(M, walk) ==
    [M EXCEPT !.walks = Append(@, walk), !.ub = @ \/ walk.dead # {}]

\* ------------------------------------------------- Cell::UnsubscribeFromSources
RECURSIVE UnsubscribeWalk(_, _, _)
UnsubscribeWalk(hp, srcs, walk) ==
    IF Len(srcs) = 0 THEN walk
    ELSE UnsubscribeWalk(hp, Tail(srcs), Processed(walk, hp, Head(srcs)))

UnsubscribeFromSources(M, this) ==
    LET srcs == M.heap[this].source_cells_
    IN  EndWalk(
          [M EXCEPT
             !.heap = [a \in Addr |->
                 IF a = this THEN [@[a] EXCEPT !.source_cells_ = {}]
                 ELSE IF a \in srcs /\ @[a].live
                 THEN [@[a] EXCEPT !.dependent_cells_ = @ \ {this}]
                 ELSE @[a]]],
          UnsubscribeWalk(M.heap, SetToSeq(srcs), NewWalk("unsubscribe")))

\* ---------------------------------------------- Cell::InvalidateCacheDownstream
\* Reading a destroyed cell is undefined: the model marks it (ub) and lets the
\* traversal find no impl_ and no dependents there.
InvalidateVisit(M, cur) ==
    IF ~M.heap[cur].live THEN [M EXCEPT !.ub = TRUE]
    ELSE [M EXCEPT !.heap[cur].impl_ =
             IF @.kind # "null" THEN ImplInvalidateCache(@) ELSE @]

\* The loop keeps its walk as the last of M.walks.
CurrentWalk(M) == M.walks[Len(M.walks)]

SetCurrentWalk(M, walk) ==
    [M EXCEPT !.walks = [i \in 1..Len(M.walks) |->
                            IF i = Len(M.walks) THEN walk ELSE M.walks[i]]]

RECURSIVE InvalidateLoop(_, _, _)
\* The depth-first loop without its visited test.
InvalidateLoop_NoVisited(M, st, visited) ==
    IF Len(st) = 0 THEN M
    ELSE IF CurrentWalk(M).steps >= WalkLimit
    THEN SetCurrentWalk(M, [CurrentWalk(M) EXCEPT !.exhausted = TRUE])
    ELSE LET cur == st[Len(st)]
         IN  Bind(<<SetCurrentWalk(InvalidateVisit(M, cur),
                                   Processed(CurrentWalk(M), M.heap, cur)),
                    SubSeq(st, 1, Len(st) - 1)
                       \o (IF M.heap[cur].live
                           THEN SetToSeq(M.heap[cur].dependent_cells_)
                           ELSE <<>>),
                    visited \cup {cur}>>,
                  LAMBDA n : InvalidateLoop(n[1], n[2], n[3]))

InvalidateLoop(M, st, visited) ==
    IF Len(st) = 0 THEN M
    ELSE IF CurrentWalk(M).steps >= WalkLimit
    THEN SetCurrentWalk(M, [CurrentWalk(M) EXCEPT !.exhausted = TRUE])
    ELSE LET cur == st[Len(st)]
         IN  IF cur \in visited
             THEN Bind(<<SetCurrentWalk(M, Skipped(CurrentWalk(M))),
                         SubSeq(st, 1, Len(st) - 1)>>,
                       LAMBDA n : InvalidateLoop(n[1], n[2], visited))
             ELSE Bind(<<SetCurrentWalk(InvalidateVisit(M, cur),
                                        Processed(CurrentWalk(M), M.heap, cur)),
                         SubSeq(st, 1, Len(st) - 1)
                            \o (IF M.heap[cur].live
                                THEN SetToSeq(M.heap[cur].dependent_cells_)
                                ELSE <<>>),
                         visited \cup {cur}>>,
                       LAMBDA n : InvalidateLoop(n[1], n[2], n[3]))

\* The invalidation stopping at the cell itself.
InvalidateCacheDownstream_SelfOnly(M, this) == InvalidateVisit(M, this)

InvalidateCacheDownstream(M, this) ==
    InvalidateLoop([M EXCEPT !.walks = Append(@, NewWalk("invalidate"))],
                   <<this>>, {})

\* ------------------------------------------- Cell::Set and Sheet::SetCell
RECURSIVE Sheet_SetCell(_, _, _), Cell_Set(_, _, _), UpdateLoop(_, _, _, _)

\* A subscription round that does not create the missing source cell.
Subscribe_NoCreate(M, this, pos) ==
    LET src == GetCell(M.cells_, pos)
    IN  IF src = NULL \/ src = this THEN M
        ELSE [M EXCEPT !.heap[this].source_cells_ = @ \cup {src},
                       !.heap[src].dependent_cells_ = @ \cup {this}]

\* A subscription round that calls SetCell(pos, "") whether or not the
\* source cell exists.
Subscribe_AlwaysSet(M, this, pos) ==
    Bind(IF ~IsValid(pos) THEN Throw(M, "InvalidPositionException")
         ELSE Sheet_SetCell(M, pos, <<>>),
         LAMBDA M1 :
            LET src == GetCell(M1.cells_, pos)
            IN  IF M1.exc # "none" \/ src = NULL \/ src = this THEN M1
                ELSE [M1 EXCEPT !.heap[this].source_cells_ = @ \cup {src},
                                !.heap[src].dependent_cells_ = @ \cup {this}])

\* One round of the subscription loop of Cell::UpdateDependencies.
Subscribe(M, this, pos) ==
    Bind(IF ~IsValid(pos) THEN Throw(M, "InvalidPositionException")
         ELSE IF GetCell(M.cells_, pos) = NULL THEN Sheet_SetCell(M, pos, <<>>)
         ELSE M,
         LAMBDA M1 :
            LET src == GetCell(M1.cells_, pos)
            IN  IF M1.exc # "none" \/ src = NULL \/ src = this THEN M1
                ELSE [M1 EXCEPT !.heap[this].source_cells_ = @ \cup {src},
                                !.heap[src].dependent_cells_ = @ \cup {this}])

UpdateLoop(M, this, new_refs, i) ==
    IF i > Len(new_refs) \/ M.exc # "none" THEN M
    ELSE Bind(Subscribe(M, this, new_refs[i]), LAMBDA M1 :
             UpdateLoop(M1, this, new_refs, i + 1))

\* Cell::UpdateDependencies
UpdateDependencies(M, this, new_refs) ==
    Bind(UnsubscribeFromSources(M, this), LAMBDA M1 :
        UpdateLoop(M1, this, new_refs, 1))

\* The tail of the try block of Cell::Set, after impl_ has been assigned.
RewireAndInvalidate(M, this, new_refs) ==
    Bind(UpdateDependencies(M, this, new_refs), LAMBDA M1 :
        IF M1.exc # "none" THEN M1 ELSE InvalidateCacheDownstream(M1, this))

\* A catch block that leaves the cell empty instead of restoring old_impl.
Rollback_ToEmpty(M, this, old_impl) == [M EXCEPT !.heap[this].impl_ = EmptyImpl]

\* The catch (...) block of Cell::Set.
Rollback(M, this, old_impl) == [M EXCEPT !.heap[this].impl_ = old_impl]

\* A formula test without the length condition.
IsFormulaText_AnyLength(text) ==
    Len(text) # 0 /\ text[1] = FORMULA_SIGN

\* Whether Cell::Set takes the formula branch.
IsFormulaText(text) ==
    Len(text) # 0 /\ text[1] = FORMULA_SIGN /\ Len(text) > 1

\* The formula branch; impl_ is null while the new FormulaImpl is checked.
SetFormula(M, this, text) ==
    IF ~Parses(Substr1(text)) THEN Throw(M, "FormulaException")
    ELSE Bind(FormulaImpl(Substr1(text)), LAMBDA new_impl :
           Bind(ImplGetReferencedCells(new_impl), LAMBDA new_refs :
             Bind(CheckCircularDependency(M, this, new_refs), LAMBDA walk :
               Bind(EndWalk(M, walk), LAMBDA M1 :
                 IF walk.found
                 THEN Throw(M1, "CircularDependencyException")
                 ELSE RewireAndInvalidate(
                        [M1 EXCEPT !.heap[this].impl_ = new_impl], this, new_refs)))))

\* The try block of Cell::Set; impl_ has been moved out (it is null).
SetBody(M, this, text) ==
    IF IsFormulaText(text) THEN
        SetFormula(M, this, text)
    ELSE IF Len(text) # 0 /\ text[1] = ESCAPE_SIGN THEN
        RewireAndInvalidate([M EXCEPT !.heap[this].impl_ = TextImpl(text)], this, <<>>)
    ELSE IF Len(text) # 0 THEN
        RewireAndInvalidate([M EXCEPT !.heap[this].impl_ = TextImpl(text)], this, <<>>)
    ELSE
        RewireAndInvalidate([M EXCEPT !.heap[this].impl_ = EmptyImpl], this, <<>>)

\* Whether Cell::Set returns at once (the text is the current GetText()).
SameText(M, this, text) == text = GetText(M.heap, this)

\* Entering Cell::Set: one more activation, recorded when it is a nested one.
EnterSet(M, this, text) ==
    [M EXCEPT !.depth = @ + 1,
              !.nested_sets =
                  IF M.depth = 0 THEN @
                  ELSE @ \cup {[early |-> SameText(M, this, text),
                                depth |-> M.depth]}]

\* Leaving Cell::Set, by return or by exception.
LeaveSet(M) == [M EXCEPT !.depth = @ - 1]

Cell_Set(M, this, text) ==
    Bind(EnterSet(M, this, text), LAMBDA M0 :
      LeaveSet(
        IF SameText(M0, this, text) THEN M0
        ELSE Bind(SetBody([M0 EXCEPT !.heap[this].impl_ = NullImpl], this, text),
                  LAMBDA R :
                     IF R.exc # "none" THEN Rollback(R, this, M0.heap[this].impl_)
                     ELSE R)))

\* cells_[pos.row][pos.col] = ptr
SetSlot(cells, pos, ptr) ==
    [r \in 1..Len(cells) |->
        IF r = pos[1] + 1
        THEN [c \in 1..Len(cells[r]) |-> IF c = pos[2] + 1 THEN ptr ELSE cells[r][c]]
        ELSE cells[r]]

\* cells_[pos.row][pos.col] = std::make_unique<Cell>(*this)
MakeCell(M, pos) ==
    [M EXCEPT !.cells_ = SetSlot(@, pos, Head(M.alloc)),
              !.heap[Head(M.alloc)] = NewCellObject,
              !.alloc = Tail(@)]

\* SetCell growing the storage before it looks at the position.
Sheet_SetCell_GrowFirst(M, pos, text) ==
    Bind([M EXCEPT !.cells_ = MaybeIncreaseSizeToIncludePosition(@, pos)],
         LAMBDA M1 :
           IF ~IsValid(pos) THEN Throw(M1, "InvalidPositionException")
           ELSE Bind(IF GetConcreteCell(M1.cells_, pos) = NULL
                     THEN MakeCell(M1, pos) ELSE M1,
                  LAMBDA M2 : Cell_Set(M2, GetConcreteCell(M2.cells_, pos), text)))

\* Entering Sheet::SetCell: recorded when Cell::Set is running.
EnterSetCell(M, pos, text) ==
    IF M.depth = 0 THEN M
    ELSE [M EXCEPT !.nested_calls =
              @ \cup {[text |-> text,
                       absent |-> IsValid(pos) /\ GetCell(M.cells_, pos) = NULL]}]

Sheet_SetCell(M, pos, text) ==
    Bind(EnterSetCell(M, pos, text), LAMBDA M0 :
      IF ~IsValid(pos) THEN Throw(M0, "InvalidPositionException")
      ELSE Bind([M0 EXCEPT !.cells_ = MaybeIncreaseSizeToIncludePosition(@, pos)],
             LAMBDA M1 :
               Bind(IF GetConcreteCell(M1.cells_, pos) = NULL
                    THEN MakeCell(M1, pos) ELSE M1,
                 LAMBDA M2 : Cell_Set(M2, GetConcreteCell(M2.cells_, pos), text))))

\* ----------------------------------------- Cell::Clear and Sheet::ClearCell
Cell_Clear(M, this) ==
    Bind(Cell_Set(M, this, <<>>), LAMBDA M1 :
        IF M1.exc # "none" THEN M1
        ELSE Bind(UnsubscribeFromSources(M1, this), LAMBDA M2 :
                 InvalidateCacheDownstream(M2, this)))

\* cells_[pos.row][pos.col].reset(): the Cell is destroyed where it stands.
ResetCell(M, pos) ==
    [M EXCEPT !.cells_ = SetSlot(@, pos, NULL),
              !.heap[GetCell(M.cells_, pos)] = FreedObject]

Sheet_ClearCell(M, pos) ==
    IF ~IsValid(pos) THEN Throw(M, "InvalidPositionException")
    ELSE LET cell == GetConcreteCell(M.cells_, pos)
         IN  IF cell = NULL THEN M
             ELSE IF IsReferenced(M.heap, cell) THEN Cell_Clear(M, cell)
             ELSE ResetCell(M, pos)

\* ------------------------------------------------------ Sheet::GetActualSize
Size(rows, cols) == [rows |-> rows, cols |-> cols]

\* std::max over a set of ints, starting from init.
MaxFrom(init, S) ==
    IF S = {} THEN init ELSE CHOOSE m \in S : \A x \in S : x <= m

\* The loops counting every slot that holds a cell, whatever its text.
CountedSlots_AnyCell(cells, hp) ==
    {rc \in UNION {{<<row, col>> : col \in 0..(Len(cells[row + 1]) - 1)} :
                      row \in 0..(Len(cells) - 1)} :
        cells[rc[1] + 1][rc[2] + 1] # NULL}

\* The storage slots the loops of GetActualSize count.
CountedSlots(cells, hp) ==
    {rc \in UNION {{<<row, col>> : col \in 0..(Len(cells[row + 1]) - 1)} :
                      row \in 0..(Len(cells) - 1)} :
        /\ cells[rc[1] + 1][rc[2] + 1] # NULL
        /\ Len(GetText(hp, cells[rc[1] + 1][rc[2] + 1])) # 0}

GetActualSize(cells, hp) ==
    LET slots == CountedSlots(cells, hp)
        max_row == MaxFrom(-1, {rc[1] : rc \in slots})
        max_col == MaxFrom(-1, {rc[2] : rc \in slots})
    IN  Size(IF max_row >= 0 THEN max_row + 1 ELSE 0,
             IF max_col >= 0 THEN max_col + 1 ELSE 0)

\* Sheet::GetPrintableSize
GetPrintableSize(cells, hp) == GetActualSize(cells, hp)

\* ------------------------------------------------------------- evaluation

\* std::stod on a string of the model's characters: decimal digits, then
\* optionally "e" and the digits of an exponent.
RECURSIVE NumericPrefix(_, _)
NumericPrefix(s, i) ==
    IF i <= Len(s) /\ s[i] \in Digits THEN NumericPrefix(s, i + 1) ELSE i - 1

RECURSIVE DecimalValue(_, _, _)
DecimalValue(s, from, to) ==
    IF to < from THEN 0 ELSE DecimalValue(s, from, to - 1) * 10 + DigitVal(s[to])

RECURSIVE Pow10(_)
Pow10(n) == IF n = 0 THEN 1 ELSE 10 * Pow10(n - 1)

\* The largest decimal exponent of a double (DBL_MAX is 1.79...e308).
DBL_MAX_10_EXP == 308

\* What std::stod(s, &idx) does: [idx, d] when it converts, idx = 0 with
\* "invalid_argument" when no conversion can be made, "out_of_range" when the
\* number exceeds the range of double.
Stod(s) ==
    Bind(NumericPrefix(s, 1), LAMBDA m :
      IF m = 0 THEN [thrown |-> "invalid_argument", idx |-> 0, d |-> 0]
      ELSE Bind(IF m + 1 <= Len(s) /\ s[m + 1] = "e"
                THEN NumericPrefix(s, m + 2) ELSE m, LAMBDA n :
             LET has_exp == n >= m + 2
                 mant == DecimalValue(s, 1, m)
                 exp == IF has_exp THEN DecimalValue(s, m + 2, n) ELSE 0
                 lead == CHOOSE k \in 1..(m + 1) :
                            /\ k = m + 1 \/ s[k] # "0"
                            /\ \A h \in 1..(k - 1) : s[h] = "0"
                 mag == (m - lead) + exp
             IN  IF lead <= m /\ ( \/ mag > DBL_MAX_10_EXP
                                   \/ mag = DBL_MAX_10_EXP /\ DigitVal(s[lead]) >= 2 )
                 THEN [thrown |-> "out_of_range", idx |-> 0, d |-> 0]
                 ELSE [thrown |-> "none",
                       idx |-> IF has_exp THEN n ELSE m,
                       d |-> IF mant = 0 THEN 0 ELSE mant * Pow10(exp)]))

\* The std::string branch without its test for the empty string.
StringOperand_NoEmpty(s) ==
    Bind(Stod(s), LAMBDA r :
        IF r.thrown = "invalid_argument" THEN ErrorV("Value")
        ELSE IF r.thrown = "out_of_range" THEN ErrorV("Arithmetic")
        ELSE IF r.idx = Len(s) THEN DoubleV(r.d)
        ELSE ErrorV("Value"))

\* The std::string branch of get_cell_value: the double returned, or the
\* FormulaError thrown.
StringOperand(s) ==
    IF Len(s) = 0 THEN DoubleV(0)
    ELSE Bind(Stod(s), LAMBDA r :
            IF r.thrown = "invalid_argument" THEN ErrorV("Value")
            ELSE IF r.thrown = "out_of_range" THEN ErrorV("Arithmetic")
            ELSE IF r.idx = Len(s) THEN DoubleV(r.d)
            ELSE ErrorV("Value"))

\* Cell::GetValue with the memo it leaves behind: <<heap, value>>.
\* Execute adds the operands left to right and stops at the first FormulaError
\* thrown by get_cell_value.
RECURSIVE Cell_GetValue(_, _, _), Execute(_, _, _, _, _)

\* The get_cell_value lambda of Formula::Evaluate: <<heap, double or thrown error>>.
get_cell_value(cells, hp, pos) ==
    LET cell == GetCell(cells, pos)
    IN  IF cell = NULL THEN <<hp, DoubleV(0)>>
        ELSE Bind(Cell_GetValue(cells, hp, cell), LAMBDA r :
                IF r[2].t = "string" THEN <<r[1], StringOperand(r[2].s)>>
                ELSE r)

Execute(cells, hp, ast, i, acc) ==
    IF i > Len(ast) THEN <<hp, DoubleV(acc)>>
    ELSE Bind(get_cell_value(cells, hp, PosOfLabel(ast[i])), LAMBDA r :
            IF r[2].t = "error" THEN r
            ELSE Execute(cells, r[1], ast, i + 1, acc + r[2].d))

\* Formula::Evaluate
Evaluate(cells, hp, ast) == Execute(cells, hp, ast, 1, 0)

Cell_GetValue(cells, hp, c) ==
    LET impl == hp[c].impl_
    IN  CASE impl.kind = "Empty" -> <<hp, DoubleV(0)>>
          [] impl.kind = "Text" -> <<hp, TextGetValue(impl)>>
          [] impl.kind = "Formula" ->
               IF Len(impl.cache) # 0 THEN <<hp, impl.cache[1]>>
               ELSE Bind(Evaluate(cells, hp, impl.ast), LAMBDA r :
                       <<[r[1] EXCEPT ![c].impl_.cache = <<r[2]>>], r[2]>>)

\* ------------------------------------------------------------------ inputs

\* "=A1+B1": the canonical text of a sum of references.
SumText(S) ==
    <<FORMULA_SIGN>> \o JoinPlus([i \in 1..Cardinality(S) |-> Label(SortPositions(S)[i])])

\* "=(A1)": a formula text that is not in canonical form.
ParenText(p) == <<FORMULA_SIGN, "(", Label(p), ")">>

RefSets == {S \in SUBSET Positions : S # {} /\ Cardinality(S) <= MaxRefs}

\* The texts SetCell is called with: empty, a number, a word, an escaped
\* number, a formula that does not parse, the escape sign alone, the formula
\* sign alone, a number beyond the range of double, sums of references,
\* parenthesised references.
Texts ==
    {<<>>, <<"2">>, <<"x">>, <<ESCAPE_SIGN, "2">>, <<FORMULA_SIGN, "(">>,
     <<ESCAPE_SIGN>>, <<FORMULA_SIGN>>, <<"1", "e", "9", "9", "9">>}
        \cup {SumText(S) : S \in RefSets}
        \cup {ParenText(p) : p \in Positions}

\* ------------------------------------------------------------ public calls

\* The positions a call may construct a Cell at, in the order of the
\* constructions: pos itself, then the referenced positions.
MayAllocate(cells, pos, text) ==
    IF ~IsValid(pos) THEN <<>> ELSE
    LET refs == IF IsFormulaText(text) /\ Parses(Substr1(text))
                THEN ImplGetReferencedCells(FormulaImpl(Substr1(text)))
                ELSE <<>>
    IN  SelectSeq(<<pos>> \o SelectSeq(refs, LAMBDA p : p # pos),
                  LAMBDA p : GetCell(cells, p) = NULL)

\* What operator new may return during the call.
Allocations(cells, hp, call) ==
    IF call.op = "SetCell"
    THEN Bind(<<Dangling(hp), Fresh(hp), MayAllocate(cells, call.pos, call.text)>>,
              LAMBDA a : AllocSeqs(a[1], a[2], a[3]))
    ELSE {<<>>}

\* sheet.GetCell(pos)->GetValue(); nothing to call when there is no cell.
Sheet_GetValue(M, pos) ==
    IF ~IsValid(pos) THEN Throw(M, "InvalidPositionException")
    ELSE LET cell == GetCell(M.cells_, pos)
         IN  IF cell = NULL THEN M
             ELSE [M EXCEPT !.heap = Cell_GetValue(M.cells_, M.heap, cell)[1]]

\* sheet.GetCell(pos): a query; it throws on an invalid position.
Sheet_GetCell(M, pos) ==
    IF ~IsValid(pos) THEN Throw(M, "InvalidPositionException") ELSE M

\* One public call on the sheet.
Run(cells, hp, alloc, call) ==
    CASE call.op = "GetCell" ->
            Sheet_GetCell(Machine(cells, hp, alloc), call.pos)
      [] call.op = "SetCell" ->
            Sheet_SetCell(Machine(cells, hp, alloc), call.pos, call.text)
      [] call.op = "ClearCell" ->
            Sheet_ClearCell(Machine(cells, hp, alloc), call.pos)
      [] call.op = "GetValue" ->
            Sheet_GetValue(Machine(cells, hp, alloc), call.pos)

SetCall(pos, text) == [op |-> "SetCell", pos |-> pos, text |-> text]
ClearCall(pos) == [op |-> "ClearCell", pos |-> pos, text |-> <<>>]
ValueCall(pos) == [op |-> "GetValue", pos |-> pos, text |-> <<>>]
CellCall(pos) == [op |-> "GetCell", pos |-> pos, text |-> <<>>]

\* Positions that are not valid: NONE, a negative row with a column in range,
\* the first row and the first column out of range.
InvalidPositions == {NONE, <<-1, 1>>, <<MAX_ROWS, 0>>, <<0, MAX_COLS>>}

\* The texts SetCell is called with on an invalid position.
InvalidTexts == {<<"2">>, <<FORMULA_SIGN, "A1">>}

\* ------------------------------------------------- Position <-> label codec

LETTERS == 26
MAX_POSITION_LENGTH == 17
MAX_POS_LETTER_COUNT == 3

\* 'A' .. 'Z', indexed by their distance from 'A' plus one.
UpperLetters ==
    <<"A", "B", "C", "D", "E", "F", "G", "H", "I", "J", "K", "L", "M",
      "N", "O", "P", "Q", "R", "S", "T", "U", "V", "W", "X", "Y", "Z">>

\* The lower-case letters that occur in the inputs.
LowerLetters == {"a", "e", "x", "z"}

\* '0' .. '9', indexed by their distance from '0' plus one.
DigitChars == <<"0", "1", "2", "3", "4", "5", "6", "7", "8", "9">>

\* isupper, isalpha, isdigit on the characters of the inputs
IsUpper(c) == \E i \in 1..LETTERS : UpperLetters[i] = c
IsAlpha(c) == IsUpper(c) \/ c \in LowerLetters
IsDigit(c) == c \in Digits

\* c - 'A' + 1
LetterVal(c) == CHOOSE i \in 1..LETTERS : UpperLetters[i] = c

\* std::to_string of an int that is not negative
RECURSIVE to_string(_)
to_string(n) ==
    IF n < 10 THEN <<DigitChars[n + 1]>>
    ELSE to_string(n \div 10) \o <<DigitChars[(n % 10) + 1]>>

\* The while loop of Position::ToString: the letters of a column.
RECURSIVE ColumnLetters(_, _)
ColumnLetters(col_copy, result) ==
    IF col_copy >= 0
    THEN ColumnLetters((col_copy \div LETTERS) - 1,
                       <<UpperLetters[(col_copy % LETTERS) + 1]>> \o result)
    ELSE result

\* Position::ToString
Position_ToString(pos) ==
    IF ~IsValid(pos) THEN <<>>
    ELSE ColumnLetters(pos[2], <<>>) \o to_string(pos[1] + 1)

\* An int is kept as the two 16-bit halves <<high, low>> of its two's
\* complement, so that row * 10 + digit wraps around at 32 bits.
Half == 65536
INT_MAX == 2147483647

ToInt(w) ==
    IF w[1] >= Half \div 2 THEN (w[1] - Half) * Half + w[2]
    ELSE w[1] * Half + w[2]

\* w * 10 + digit modulo 2^32
MulAdd10(w, digit) ==
    LET low == w[2] * 10 + digit
    IN  <<(w[1] * 10 + (low \div Half)) % Half, low % Half>>

\* w - 1 modulo 2^32
Decrement(w) ==
    IF w[2] > 0 THEN <<w[1], w[2] - 1>>
    ELSE <<(w[1] + Half - 1) % Half, Half - 1>>

\* The letter_count loop of FromString: the number of leading letters, or -1
\* when one of them is not upper case.
RECURSIVE LetterCount(_, _)
LetterCount(str, letter_count) ==
    IF letter_count < Len(str) /\ IsAlpha(str[letter_count + 1])
    THEN IF ~IsUpper(str[letter_count + 1]) THEN -1
         ELSE LetterCount(str, letter_count + 1)
    ELSE letter_count

\* The column loop of FromString without the final col--.
RECURSIVE ColumnSum(_, _, _)
ColumnSum(str, i, col) ==
    IF i > 0 THEN ColumnSum(str, i - 1, col) * LETTERS + LetterVal(str[i])
    ELSE col

ParseColumn_NoDecrement(str, letter_count) == ColumnSum(str, letter_count, 0)

\* The column loop of FromString and col--.
ParseColumn(str, letter_count) == ColumnSum(str, letter_count, 0) - 1

\* The row loop of FromString from character i on: the accumulator and whether
\* a signed overflow (undefined behaviour) has happened.
RECURSIVE ParseRow(_, _, _)
ParseRow(str, i, acc) ==
    IF i > Len(str) THEN acc
    ELSE LET digit == DigitVal(str[i])
             row == ToInt(acc.w)
         IN  ParseRow(str, i + 1,
                 [w |-> MulAdd10(acc.w, digit),
                  ub |-> acc.ub \/ row < 0 \/ row > (INT_MAX - digit) \div 10])

\* Position::FromString: the position returned when int wraps around, and
\* whether the row arithmetic overflowed.
Position_FromString(str) ==
    IF Len(str) = 0 \/ Len(str) > MAX_POSITION_LENGTH
    THEN [pos |-> NONE, ub |-> FALSE]
    ELSE LET letter_count == LetterCount(str, 0)
         IN  IF letter_count = -1 THEN [pos |-> NONE, ub |-> FALSE]
             ELSE IF letter_count = 0 \/ letter_count > MAX_POS_LETTER_COUNT
             THEN [pos |-> NONE, ub |-> FALSE]
             ELSE IF letter_count = Len(str) THEN [pos |-> NONE, ub |-> FALSE]
             ELSE IF \E i \in (letter_count + 1)..Len(str) : ~IsDigit(str[i])
             THEN [pos |-> NONE, ub |-> FALSE]
             ELSE LET col == ParseColumn(str, letter_count)
                      acc == ParseRow(str, letter_count + 1,
                                      [w |-> <<0, 0>>, ub |-> FALSE])
                      row == ToInt(Decrement(acc.w))
                      result == <<row, col>>
                  IN  [pos |-> IF IsValid(result) THEN result ELSE NONE,
                       ub |-> acc.ub \/ ToInt(acc.w) = -INT_MAX - 1]


\* ------------------------------------------------------------------ state

VARIABLES
    cells_,   \* Sheet::cells_: rows of owning pointers (NULL when absent)
    heap,     \* the Cell objects, by address
    build,    \* what reading freed memory does in this build, once known
    last,     \* the last public call, how it ended, whether it repeated
              \* the successful SetCell before it
    nops,     \* number of public calls made since the initial state
    codec     \* a Position::ToString / Position::FromString computation

vars == <<cells_, heap, build, last, nops, codec>>

\* No codec computation: the sheet is at work.
NoCodec ==
    [kind |-> "none", step |-> 0, p0 |-> NONE, s0 |-> <<>>, p |-> NONE,
     s |-> <<>>, trapped |-> FALSE]

\* Sheet::Sheet: one row holding one empty slot.
EmptySheet == [cells_ |-> << <<NULL>> >>, heap |-> [a \in Addr |-> FreedObject]]

\* The sheet after a script of calls on a new sheet, every allocation fresh.
RECURSIVE Replay(_)
Replay(script) ==
    IF Len(script) = 0 THEN EmptySheet
    ELSE Bind(Replay(SubSeq(script, 1, Len(script) - 1)), LAMBDA S :
           LET call == script[Len(script)]
               alloc == CHOOSE a \in AllocSeqs({}, Fresh(S.heap),
                            IF call.op = "SetCell"
                            THEN MayAllocate(S.cells_, call.pos, call.text)
                            ELSE <<>>) : TRUE
           IN  Bind(Run(S.cells_, S.heap, alloc, call), LAMBDA M :
                  [cells_ |-> M.cells_, heap |-> M.heap]))

\* The runs start on a new sheet or after one of these scripts:
\* a value, a formula on it, its value read;
\* two formulas on one cell;
\* a chain of two formulas.
Scripts ==
    { <<>>,
      <<SetCall(A1, <<"2">>), SetCall(B1, SumText({A1})), ValueCall(B1)>>,
      <<SetCall(B1, SumText({A1})), SetCall(A2, SumText({A1}))>>,
      <<SetCall(A2, SumText({B1})), SetCall(B1, SumText({A1}))>> }

NoCall ==
    [op |-> "none", pos |-> A1, text |-> <<>>, exc |-> "none", again |-> FALSE,
     nested |-> [calls |-> {}, sets |-> {}], walks |-> <<>>]

Init ==
    /\ \E script \in Scripts : \E S \in {Replay(script)} :
          /\ cells_ = S.cells_
          /\ heap = S.heap
    /\ build = "unknown"
    /\ last = NoCall
    /\ nops = 0
    /\ codec = NoCodec

CanCall == nops < MaxOps /\ build # "crash"

Again(call) ==
    /\ call.op = "SetCell"
    /\ last.op = "SetCell"
    /\ last.exc = "none"
    /\ last.pos = call.pos
    /\ last.text = call.text

Ended(call, exc, M) ==
    [op |-> call.op, pos |-> call.pos, text |-> call.text, exc |-> exc,
     again |-> Again(call),
     nested |-> [calls |-> M.nested_calls, sets |-> M.nested_sets],
     walks |-> M.walks]

\* A call that read freed memory fixes the build when it is not yet known:
\* the read is harmless from now on, or the process dies here.
Finish(call, M) ==
    /\ nops' = nops + 1
    /\ IF M.ub /\ build # "benign"
       THEN \/ /\ build' = "benign"
               /\ cells_' = M.cells_
               /\ heap' = M.heap
               /\ last' = Ended(call, M.exc, M)
            \/ /\ build' = "crash"
               /\ UNCHANGED <<cells_, heap>>
               /\ last' = Ended(call, "crash", M)
       ELSE /\ UNCHANGED build
            /\ cells_' = M.cells_
            /\ heap' = M.heap
            /\ last' = Ended(call, M.exc, M)

Do(call) ==
    /\ CanCall
    /\ \E alloc \in Allocations(cells_, heap, call) :
          \E M \in {Run(cells_, heap, alloc, call)} : Finish(call, M)
    /\ UNCHANGED codec

SetCell(pos, text) == Do(SetCall(pos, text))

ClearCell(pos) == Do(ClearCall(pos))

GetValue(pos) == GetCell(cells_, pos) # NULL /\ Do(ValueCall(pos))

GetCellAt(pos) == Do(CellCall(pos))

Next ==
    \/ \E pos \in Positions, text \in Texts : SetCell(pos, text)
    \/ \E pos \in Positions : ClearCell(pos)
    \/ \E pos \in Positions : GetValue(pos)
    \/ \E pos \in InvalidPositions, text \in InvalidTexts : SetCell(pos, text)
    \/ \E pos \in InvalidPositions : ClearCell(pos)
    \/ \E pos \in InvalidPositions : GetCellAt(pos)

Spec == Init /\ [][Next]_vars

\* ---------------------------------------------------- codec computations
\* Position::ToString and Position::FromString are static and pure: they are
\* run on their own, from a position (ToString, then FromString of the label)
\* or from a string (FromString, then ToString of the position).

\* Longest string drawn from CodecAlphabet.
MaxLabelLen == 3

\* Largest column of the dense range of columns.
MaxCodecCol == 730

CodecAlphabet == {"A", "Z", "a", "0", "1", "9"}

\* Labels beyond MaxLabelLen: the largest position, columns and rows at and
\* past the limits, digit parts at and past the range of int, and the
\* longest string FromString reads (17 characters) and the first it does not.
LongLabels ==
    { <<"A", "A", "A", "A", "1">>,
      <<"X", "F", "D", "1", "6", "3", "8", "4">>,
      <<"X", "F", "E", "1">>,
      <<"Z", "Z", "Z", "1">>,
      <<"A", "1", "6", "3", "8", "4">>,
      <<"A", "1", "6", "3", "8", "5">>,
      <<"A", "2", "1", "4", "7", "4", "8", "3", "6", "4", "7">>,
      <<"A", "2", "1", "4", "7", "4", "8", "3", "6", "4", "8">>,
      <<"A", "4", "2", "9", "4", "9", "6", "7", "2", "9", "6">>,
      <<"A", "4", "2", "9", "4", "9", "6", "7", "2", "9", "7">>,
      <<"B", "4", "2", "9", "4", "9", "8", "3", "6", "7", "9">>,
      <<"A", "0", "0", "0", "0", "0", "0", "0", "0", "0", "0", "0", "0", "0",
        "0", "0", "1">>,
      <<"A", "0", "0", "0", "0", "0", "0", "0", "0", "0", "0", "0", "0", "0",
        "0", "0", "0", "1">>,
      <<"A", "9", "9", "9", "9", "9", "9", "9", "9", "9", "9", "9", "9", "9",
        "9", "9", "9">> }

CodecStrings ==
    UNION {[1..n -> CodecAlphabet] : n \in 0..MaxLabelLen} \cup LongLabels

CodecRows == {0, 8, 9, 10, 98, 99, MAX_ROWS - 1}

CodecCols == (0..MaxCodecCol) \cup {MAX_COLS - 1}

CodecPositions == (CodecRows \X CodecCols) \cup InvalidPositions

CodecInit ==
    /\ cells_ = EmptySheet.cells_
    /\ heap = EmptySheet.heap
    /\ build = "unknown"
    /\ last = NoCall
    /\ nops = 0
    /\ \/ \E pos \in CodecPositions :
             codec = [NoCodec EXCEPT !.kind = "position", !.p0 = pos, !.p = pos]
       \/ \E str \in CodecStrings :
             codec = [NoCodec EXCEPT !.kind = "string", !.s0 = str, !.s = str]

\* p.ToString() on the position at hand.
CallToString ==
    /\ ~codec.trapped
    /\ \/ codec.kind = "position" /\ codec.step = 0
       \/ codec.kind = "string" /\ codec.step = 1
    /\ codec' = [codec EXCEPT !.s = Position_ToString(codec.p), !.step = @ + 1]
    /\ UNCHANGED <<cells_, heap, build, last, nops>>

\* Position::FromString on the string at hand.  A signed overflow of the row
\* accumulator is undefined: the build either wraps around or traps.
CallFromString ==
    /\ ~codec.trapped
    /\ \/ codec.kind = "string" /\ codec.step = 0
       \/ codec.kind = "position" /\ codec.step = 1
    /\ \E r \in {Position_FromString(codec.s)} :
          \/ codec' = [codec EXCEPT !.p = r.pos, !.step = @ + 1]
          \/ r.ub /\ codec' = [codec EXCEPT !.trapped = TRUE]
    /\ UNCHANGED <<cells_, heap, build, last, nops>>

CodecNext == CallToString \/ CallFromString

CodecSpec == CodecInit /\ [][CodecNext]_vars

\* ------------------------------------------------------------- properties

\* The cells the sheet owns.
Owned(cells) == {GetCell(cells, p) : p \in Positions} \ {NULL}

\* The position of an owned cell.
PosOf(cells, c) == CHOOSE p \in Positions : GetCell(cells, p) = c

\* The cells reachable from the set S of cells along the edges nxt, S included.
RECURSIVE Closure(_, _)
Closure(S, nxt) ==
    LET N == S \cup UNION {nxt[a] : a \in S}
    IN  IF N = S THEN S ELSE Closure(N, nxt)

\* The cells reachable from c by one or more source edges.
Upstream(hp, c) ==
    Closure(hp[c].source_cells_, [a \in Addr |-> hp[a].source_cells_])

\* The cells reachable from c by one or more dependent edges.
Downstream(hp, c) ==
    Closure(hp[c].dependent_cells_, [a \in Addr |-> hp[a].dependent_cells_])

\* The heap with every memo dropped.
Uncached(hp) ==
    [a \in Addr |-> [hp[a] EXCEPT !.impl_ = ImplInvalidateCache(@)]]

\* What GetValue returns now, and what an evaluation that trusts no memo returns.
ValueOf(cells, hp, c) == Cell_GetValue(cells, hp, c)[2]
FreshValue(cells, hp, c) == Cell_GetValue(cells, Uncached(hp), c)[2]

\* The positions a formula text refers to (<<>> when it is no formula).
RefsOfText(text) ==
    IF IsFormulaText(text) /\ Parses(Substr1(text))
    THEN {PosOfLabel(l) : l \in {t \in Labels : \E i \in 2..Len(text) : text[i] = t}}
    ELSE {}

\* The cells whose formula refers to pos.
ReferrersOf(cells, hp, pos) ==
    {c \in Owned(cells) :
        \E i \in 1..Len(GetReferencedCells(hp, c)) : GetReferencedCells(hp, c)[i] = pos}

\* C1: after any sequence of calls, no cell reaches itself along source
\* edges; in particular no cell is its own source.
C1_Acyclic ==
    \A c \in Owned(cells_) : c \notin Upstream(heap, c)

\* A chain of two source edges stands after an edit that would have closed it
\* into a cycle was rejected.
C1_Witness ==
    /\ last.op = "SetCell"
    /\ last.exc = "CircularDependencyException"
    /\ \E c \in Owned(cells_) : \E s \in heap[c].source_cells_ :
          heap[s].source_cells_ # {}

\* C2: when SetCell on a position that holds a cell raises FormulaException
\* or CircularDependencyException, the cell's text, value, referenced cells,
\* sources, dependents and memo are what they were, and so are the sources
\* and dependents of every other cell.
C2_Rollback ==
    [][ ( /\ last'.op = "SetCell"
          /\ last'.exc \in {"FormulaException", "CircularDependencyException"}
          /\ GetCell(cells_, last'.pos) # NULL )
        => LET c == GetCell(cells_, last'.pos)
           IN  /\ GetCell(cells_', last'.pos) = c
               /\ Owned(cells_') = Owned(cells_)
               /\ GetText(heap', c) = GetText(heap, c)
               /\ ValueOf(cells_', heap', c) = ValueOf(cells_, heap, c)
               /\ GetReferencedCells(heap', c) = GetReferencedCells(heap, c)
               /\ heap'[c].impl_.cache = heap[c].impl_.cache
               /\ \A a \in Addr :
                     /\ heap'[a].source_cells_ = heap[a].source_cells_
                     /\ heap'[a].dependent_cells_ = heap[a].dependent_cells_
      ]_vars

\* A formula cell that holds a memo has just refused a circular edit.
C2_Witness ==
    /\ last.op = "SetCell"
    /\ last.exc = "CircularDependencyException"
    /\ GetCell(cells_, last.pos) # NULL
    /\ heap[GetCell(cells_, last.pos)].impl_.kind = "Formula"
    /\ heap[GetCell(cells_, last.pos)].impl_.cache # <<>>

\* Whether giving the cell at pos a formula over refs would close a cycle.
WouldCycle(cells, hp, pos, refs) ==
    \/ pos \in refs
    \/ /\ IsValid(pos)
       /\ GetCell(cells, pos) # NULL
       /\ \E r \in refs :
             /\ GetCell(cells, r) # NULL
             /\ GetCell(cells, pos) \in Upstream(hp, GetCell(cells, r))

\* C3: SetCell(pos, "=expr") with a parseable expr raises
\* CircularDependencyException exactly when pos is referenced by expr or the
\* cell at pos is reachable along source edges from an existing referenced
\* cell; referenced positions that hold no cell play no part.
C3_CircularIff ==
    [][ ( /\ last'.op = "SetCell"
          /\ IsFormulaText(last'.text)
          /\ Parses(Substr1(last'.text)) )
        => ( last'.exc = "CircularDependencyException"
             <=> WouldCycle(cells_, heap, last'.pos, RefsOfText(last'.text)) )
      ]_vars

\* An edit was rejected for a cycle that runs through another cell.
C3_Witness ==
    /\ last.op = "SetCell"
    /\ last.exc = "CircularDependencyException"
    /\ last.pos \notin RefsOfText(last.text)

\* C4: a formula cell that holds a memo holds the value a fresh evaluation of
\* its formula over the current sheet gives.
C4_MemoFresh ==
    \A c \in Owned(cells_) :
        (heap[c].impl_.kind = "Formula" /\ heap[c].impl_.cache # <<>>)
            => heap[c].impl_.cache[1] = FreshValue(cells_, heap, c)

\* A memo computed by the last call holds an error: the evaluation that stored
\* it followed an edit of a source.
C4_Witness ==
    /\ last.op = "GetValue"
    /\ nops = MaxOps
    /\ \E c \in Owned(cells_) :
          /\ heap[c].impl_.kind = "Formula"
          /\ heap[c].impl_.cache # <<>>
          /\ heap[c].impl_.cache[1].t = "error"

\* C5: for every existing cell S, every entry D of S.dependents is a cell the
\* sheet owns and S is in D.sources.
C5_DependentsSymmetric ==
    \A s \in Owned(cells_) : \A d \in heap[s].dependent_cells_ :
        /\ d \in Owned(cells_)
        /\ s \in heap[d].source_cells_

\* C6: for every existing cell C, every S in C.sources is a cell the sheet
\* owns and C is in S.dependents; a source of an existing cell is not destroyed.
C6_SourcesSymmetric ==
    \A c \in Owned(cells_) : \A s \in heap[c].source_cells_ :
        /\ s \in Owned(cells_)
        /\ heap[s].live
        /\ c \in heap[s].dependent_cells_

\* ClearCell has just been called on a cell that is a source of a formula
\* cell, and the cell is still there.
C6_Witness ==
    /\ last.op = "ClearCell"
    /\ last.exc = "none"
    /\ GetCell(cells_, last.pos) # NULL
    /\ \E c \in Owned(cells_) :
          /\ heap[c].impl_.kind = "Formula"
          /\ GetCell(cells_, last.pos) \in heap[c].source_cells_

\* C7: a SetCell that repeats the successful SetCell just before it (same
\* position, same text, canonical or not) succeeds and leaves the cell at
\* every position and every cell's behaviour, sources, dependents and memo as
\* they were.
C7_SetTwice ==
    [][ last'.again
        => /\ last'.exc = "none"
           /\ \A p \in Positions : GetCell(cells_', p) = GetCell(cells_, p)
           /\ heap' = heap
      ]_vars

\* The repeated text is a formula that is not in canonical form, and the cell
\* has a dependent.
C7_Witness ==
    /\ last.again
    /\ last.exc = "none"
    /\ GetCell(cells_, last.pos) # NULL
    /\ heap[GetCell(cells_, last.pos)].impl_.kind = "Formula"
    /\ GetText(heap, GetCell(cells_, last.pos)) # last.text
    /\ heap[GetCell(cells_, last.pos)].dependent_cells_ # {}

\* C8: ClearCell(pos) on an existing cell that no existing cell's formula
\* refers to leaves no cell at pos.
C8_UnreferencedDropped ==
    [][ ( /\ last'.op = "ClearCell"
          /\ last'.exc = "none"
          /\ GetCell(cells_, last'.pos) # NULL
          /\ ReferrersOf(cells_, heap, last'.pos) = {} )
        => GetCell(cells_', last'.pos) = NULL
      ]_vars

\* C9: ClearCell(pos) on a cell that some existing cell's formula refers to
\* returns normally, keeps the cell with Empty behaviour (text "", value 0.0,
\* no sources), leaves its dependents as they were, and every transitive
\* dependent then evaluates to what its formula gives over the new sheet.
C9_ReferencedKept ==
    [][ ( /\ last'.op = "ClearCell"
          /\ IsValid(last'.pos)
          /\ GetCell(cells_, last'.pos) # NULL
          /\ ReferrersOf(cells_, heap, last'.pos) # {} )
        => LET c == GetCell(cells_, last'.pos)
           IN  /\ last'.exc = "none"
               /\ GetCell(cells_', last'.pos) = c
               /\ heap'[c].impl_.kind = "Empty"
               /\ GetText(heap', c) = <<>>
               /\ ValueOf(cells_', heap', c) = DoubleV(0)
               /\ heap'[c].source_cells_ = {}
               /\ heap'[c].dependent_cells_ = heap[c].dependent_cells_
               /\ \A d \in Downstream(heap', c) \cap Owned(cells_') :
                     ValueOf(cells_', heap', d) = FreshValue(cells_', heap', d)
      ]_vars

\* The positions of the cells of C.sources are the positions C's formula
\* refers to, and each of them holds a cell.
SourcesAreReferences ==
    \A c \in Owned(cells_) :
        /\ heap[c].source_cells_ \subseteq Owned(cells_)
        /\ {PosOf(cells_, s) : s \in heap[c].source_cells_}
              = {GetReferencedCells(heap, c)[i] :
                    i \in 1..Len(GetReferencedCells(heap, c))}
        /\ heap[c].impl_.kind \in {"Empty", "Text"} => heap[c].source_cells_ = {}

\* A successful SetCell of a formula leaves, at each referenced position that
\* held no cell, an Empty cell that lists the edited cell as a dependent.
MaterialisesReferences ==
    (last'.op = "SetCell" /\ last'.exc = "none")
        => \A p \in RefsOfText(last'.text) :
              GetCell(cells_, p) = NULL
                 => /\ GetCell(cells_', p) # NULL
                    /\ heap'[GetCell(cells_', p)].impl_ = EmptyImpl
                    /\ GetCell(cells_', last'.pos)
                          \in heap'[GetCell(cells_', p)].dependent_cells_

\* C10: in every state the sources of each cell sit exactly at the positions
\* its GetReferencedCells() returns (none for Empty and Text cells) and those
\* positions hold cells; a successful SetCell of a formula creates the missing
\* ones as Empty cells and registers the edited cell with them.
C10_SourcesAreReferences ==
    []SourcesAreReferences /\ [][MaterialisesReferences]_vars

\* A formula over two positions has just been set, and a referenced position
\* holds an Empty cell whose only dependent is the edited cell.
C10_Witness ==
    /\ last.op = "SetCell"
    /\ last.exc = "none"
    /\ Cardinality(RefsOfText(last.text)) = 2
    /\ \E p \in RefsOfText(last.text) :
          /\ GetCell(cells_, p) # NULL
          /\ heap[GetCell(cells_, p)].impl_ = EmptyImpl
          /\ heap[GetCell(cells_, p)].dependent_cells_ = {GetCell(cells_, last.pos)}

\* C11: when SetCell(pos, text) aborts with FormulaException or
\* CircularDependencyException, pos holds what it held before (no cell when
\* there was none, the same cell unchanged otherwise) and the sheet owns the
\* same cells.
C11_AbortLeavesPosition ==
    [][ ( /\ last'.op = "SetCell"
          /\ last'.exc \in {"FormulaException", "CircularDependencyException"} )
        => /\ GetCell(cells_', last'.pos) = GetCell(cells_, last'.pos)
           /\ Owned(cells_') = Owned(cells_)
           /\ GetCell(cells_, last'.pos) # NULL
                 => heap'[GetCell(cells_, last'.pos)] = heap[GetCell(cells_, last'.pos)]
      ]_vars

\* C12: SetCell, GetCell and ClearCell on a position that is not valid raise
\* InvalidPositionException and change nothing: the storage, the cells, their
\* edges and memos are as before.
C12_InvalidPosition ==
    [][ ( /\ last'.op \in {"SetCell", "GetCell", "ClearCell"}
          /\ ~IsValid(last'.pos) )
        => /\ last'.exc = "InvalidPositionException"
           /\ cells_' = cells_
           /\ heap' = heap
      ]_vars

\* SetCell on an invalid position has just been refused on a sheet that holds
\* a formula cell.
C12_Witness ==
    /\ last.op = "SetCell"
    /\ ~IsValid(last.pos)
    /\ last.exc = "InvalidPositionException"
    /\ \E c \in Owned(cells_) : heap[c].impl_.kind = "Formula"

\* The positions that hold a cell whose text is not empty.
TextPositions ==
    {p \in Positions : GetCell(cells_, p) # NULL
                         /\ GetText(heap, GetCell(cells_, p)) # <<>>}

\* C13: GetPrintableSize() is (0, 0) when no existing cell has a non-empty
\* text, else (largest row + 1, largest column + 1) over exactly those cells.
C13_PrintableSize ==
    GetPrintableSize(cells_, heap) =
        IF TextPositions = {} THEN Size(0, 0)
        ELSE Size((CHOOSE r \in {p[1] : p \in TextPositions} :
                      \A p \in TextPositions : p[1] <= r) + 1,
                  (CHOOSE c \in {p[2] : p \in TextPositions} :
                      \A p \in TextPositions : p[2] <= c) + 1)

\* A cell with a text stands in row 0 only, and an Empty cell stands in row 1,
\* outside the printable size.
C13_Witness ==
    /\ GetPrintableSize(cells_, heap).rows = 1
    /\ GetCell(cells_, A2) # NULL
    /\ heap[GetCell(cells_, A2)].impl_.kind = "Empty"
    /\ last.op \in {"SetCell", "ClearCell"}

\* What a referenced position contributes to an evaluation, as the claim has
\* it: 0.0 for no cell or an Empty cell; the value of a Formula cell, double or
\* FormulaError; for a Text cell 0.0 when its value is the empty string, the
\* number when std::stod converts all of it, else FormulaError(Value), except
\* that a number std::stod finds out of range gives FormulaError(out_of_range).
OperandAs(pos, out_of_range) ==
    LET c == GetCell(cells_, pos)
    IN  IF c = NULL THEN DoubleV(0)
        ELSE CASE heap[c].impl_.kind = "Empty" -> DoubleV(0)
               [] heap[c].impl_.kind = "Formula" -> ValueOf(cells_, heap, c)
               [] heap[c].impl_.kind = "Text" ->
                    LET v == TextGetValue(heap[c].impl_).s
                    IN  IF v = <<>> THEN DoubleV(0)
                        ELSE IF Stod(v).thrown = "out_of_range"
                        THEN ErrorV(out_of_range)
                        ELSE IF Stod(v).thrown = "none" /\ Stod(v).idx = Len(v)
                        THEN DoubleV(Stod(v).d)
                        ELSE ErrorV("Value")

\* The value of a formula over the operands ops: the first FormulaError among
\* them, else their sum.
RECURSIVE SumOf(_)
SumOf(ops) == IF Len(ops) = 0 THEN 0 ELSE ops[1].d + SumOf(Tail(ops))

FormulaValueAs(c, out_of_range) ==
    LET ops == [i \in 1..Len(heap[c].impl_.ast) |->
                   OperandAs(PosOfLabel(heap[c].impl_.ast[i]), out_of_range)]
        errs == {i \in 1..Len(ops) : ops[i].t = "error"}
    IN  IF errs = {} THEN DoubleV(SumOf(ops))
        ELSE ops[CHOOSE i \in errs : \A j \in errs : i <= j]

\* C14 as stated: every formula cell evaluates to the first FormulaError its
\* operands contribute, else their sum, where a Text operand that is not empty
\* and not fully a number contributes FormulaError(Value).
C14_OperandValues ==
    \A c \in Owned(cells_) :
        heap[c].impl_.kind = "Formula"
            => ValueOf(cells_, heap, c) = FormulaValueAs(c, "Value")

\* C14 amended: the same, with a Text operand whose number is beyond the range
\* of double contributing FormulaError(Arithmetic).
C14_OperandValuesRanged ==
    \A c \in Owned(cells_) :
        heap[c].impl_.kind = "Formula"
            => ValueOf(cells_, heap, c) = FormulaValueAs(c, "Arithmetic")

\* GetValue has stored FormulaError(Arithmetic) in a formula cell that reads
\* another formula cell: the error of an out-of-range text came along a chain.
C14_Witness ==
    /\ last.op = "GetValue"
    /\ \E c \in Owned(cells_) :
          /\ heap[c].impl_.kind = "Formula"
          /\ heap[c].impl_.cache = <<ErrorV("Arithmetic")>>
          /\ \E s \in heap[c].source_cells_ : heap[s].impl_.kind = "Formula"


\* C15: a SetCell that returns has selected the behaviour by the text: empty
\* gives Empty; a leading escape sign gives Text; '=' followed by more gives
\* Formula of the remainder (or its FormulaException / CircularDependency-
\* Exception); anything else, the single "=" included, gives Text without an
\* exception.  A Text cell's GetText is the text verbatim and its GetValue is
\* the text without a leading escape sign.
C15_SetSelects ==
    (last.op = "SetCell" /\ IsValid(last.pos) /\ last.exc # "crash") =>
        LET t == last.text
            c == GetCell(cells_, last.pos)
        IN  IF Len(t) > 1 /\ t[1] = FORMULA_SIGN
            THEN \/ last.exc \in {"FormulaException", "CircularDependencyException"}
                 \/ /\ last.exc = "none"
                    /\ c # NULL
                    /\ heap[c].impl_.kind = "Formula"
                    /\ heap[c].impl_.ast = ParseFormulaAST(Tail(t))
            ELSE /\ last.exc = "none"
                 /\ c # NULL
                 /\ IF t = <<>> THEN heap[c].impl_.kind = "Empty"
                    ELSE /\ heap[c].impl_.kind = "Text"
                         /\ GetText(heap, c) = t
                         /\ ValueOf(cells_, heap, c) =
                              StringV(IF t[1] = ESCAPE_SIGN THEN Tail(t) ELSE t)

\* SetCell with the single character "=" has made a Text cell whose value is "=".
C15_Witness ==
    /\ last.op = "SetCell" /\ last.exc = "none"
    /\ last.text = <<FORMULA_SIGN>>
    /\ heap[GetCell(cells_, last.pos)].impl_.kind = "Text"
    /\ ValueOf(cells_, heap, GetCell(cells_, last.pos)) = StringV(<<FORMULA_SIGN>>)


\* C16: for every valid position p, FromString(ToString(p)) is p.
C16_RoundTrip ==
    (codec.kind = "position" /\ codec.step = 2 /\ IsValid(codec.p0))
        => codec.p = codec.p0

\* The last position of the sheet has been encoded as "XFD16384" and decoded.
C16_Witness ==
    /\ codec.kind = "position" /\ codec.step = 2
    /\ codec.p0 = <<MAX_ROWS - 1, MAX_COLS - 1>>
    /\ codec.s = <<"X", "F", "D", "1", "6", "3", "8", "4">>
    /\ codec.p = codec.p0

\* C17: for every string s that FromString accepts, ToString(FromString(s))
\* is s.
C17_AcceptedIsCanonical ==
    (codec.kind = "string" /\ codec.step = 2 /\ codec.p # NONE)
        => codec.s = codec.s0

\* 1 to 3 upper-case letters, then at least one digit, at most 17 characters:
\* the number of letters of such a string, or 0.
LabelLetters(s) ==
    LET ks == {k \in 1..MAX_POS_LETTER_COUNT :
                  /\ k < Len(s)
                  /\ \A i \in 1..k : IsUpper(s[i])
                  /\ \A i \in (k + 1)..Len(s) : IsDigit(s[i])}
    IN  IF Len(s) <= MAX_POSITION_LENGTH /\ ks # {} THEN CHOOSE k \in ks : TRUE
        ELSE 0

\* The bijective base-26 value of the first k characters of s.
RECURSIVE BijectiveValue(_, _)
BijectiveValue(s, k) ==
    IF k = 0 THEN 0 ELSE BijectiveValue(s, k - 1) * LETTERS + LetterVal(s[k])

\* The decimal value of the characters of s from..to, or cap when it is more.
RECURSIVE DecimalCapped(_, _, _, _)
DecimalCapped(s, from, to, cap) ==
    IF to < from THEN 0
    ELSE LET v == DecimalCapped(s, from, to - 1, cap) * 10 + DigitVal(s[to])
         IN  IF v > cap THEN cap ELSE v

\* The position a string denotes by its letters and digits, NONE when it is
\* no label or the position is not valid.
DenotedPosition(s) ==
    LET k == LabelLetters(s)
        pos == <<DecimalCapped(s, k + 1, Len(s), MAX_ROWS + 1) - 1,
                 BijectiveValue(s, k) - 1>>
    IN  IF k # 0 /\ IsValid(pos) THEN pos ELSE NONE

\* C18: FromString(s) is the position s denotes (decimal value of the digits
\* - 1, bijective base-26 value of the letters - 1) when s is 1 to 3
\* upper-case letters and then digits, at most 17 characters, and that
\* position is valid; it is NONE otherwise.  "A1" is (0,0), "AA1" is (0,26);
\* "", "a1", "A0", "AAAA1" are NONE.
C18_FromStringGrammar ==
    (codec.kind = "string" /\ codec.step >= 1) =>
        /\ codec.p = DenotedPosition(codec.s0)
        /\ codec.s0 = <<"A", "1">> => codec.p = <<0, 0>>
        /\ codec.s0 = <<"A", "A", "1">> => codec.p = <<0, 26>>
        /\ codec.s0 \in {<<>>, <<"a", "1">>, <<"A", "0">>,
                         <<"A", "A", "A", "A", "1">>} => codec.p = NONE

\* Whether the digits of a label denote a number above INT_MAX (2147483647),
\* read off the digits after the leading zeros.
TooLargeForInt(s) ==
    LET k == LabelLetters(s)
        nz == {i \in (k + 1)..Len(s) : s[i] # "0"}
        first == IF nz = {} THEN Len(s) + 1
                 ELSE CHOOSE i \in nz : \A j \in nz : i <= j
        n == Len(s) - first + 1
    IN  /\ k # 0
        /\ \/ n > 10
           \/ /\ n = 10
              /\ LET high == DecimalCapped(s, first, first + 4, 99999)
                     low == DecimalCapped(s, first + 5, Len(s), 99999)
                 IN  high > 21474 \/ (high = 21474 /\ low > 83647)

\* C19: FromString returns NONE for every label of at most 17 characters
\* whose digits denote a number too large for an int.
C19_OverflowIsNone ==
    (/\ codec.kind = "string" /\ codec.step >= 1
     /\ Len(codec.s0) <= MAX_POSITION_LENGTH
     /\ TooLargeForInt(codec.s0))
        => codec.p = NONE


\* C20: every Sheet::SetCell made while Cell::Set is running has empty text
\* and a position without a cell; every Cell::Set entered while one is running
\* returns at its text test and has exactly one Cell::Set above it.
C20_SingleLevel ==
    /\ \A call \in last.nested.calls : call.text = <<>> /\ call.absent
    /\ \A set \in last.nested.sets : set.early /\ set.depth <= 1

\* A formula has been set whose reference had no cell: the edge rewiring called
\* Sheet::SetCell, which entered Cell::Set.
C20_Witness ==
    /\ last.op = "SetCell" /\ last.exc = "none"
    /\ last.nested.calls # {}
    /\ last.nested.sets # {}


\* The traversals of the last public call.
WalksOf(kinds) == {i \in 1..Len(last.walks) : last.walks[i].kind \in kinds}

NoRepeat(seq) == \A i, j \in 1..Len(seq) : seq[i] = seq[j] => i = j

\* C21: every cycle check and every downstream invalidation comes to its end
\* (the loop is never cut off, its iterations stay within the pushes that the
\* processed cells can make) and takes no cell past its visited test twice.
C21_WalksEnd ==
    \A i \in WalksOf({"check", "invalidate"}) :
        /\ ~last.walks[i].exhausted
        /\ last.walks[i].steps < WalkLimit
        /\ NoRepeat(last.walks[i].processed)

\* One SetCell ran a cycle check that processed a cell and an invalidation
\* that popped a cell it had visited before: the visited test kept that cell
\* to one processing.
C21_Witness ==
    /\ last.op = "SetCell"
    /\ \E i \in WalksOf({"check"}) : Len(last.walks[i].processed) >= 1
    /\ \E i \in WalksOf({"invalidate"}) :
          last.walks[i].steps > Len(last.walks[i].processed)

\* C22: no traversal of a SetCell or ClearCell call reads a destroyed cell:
\* every cell the invalidation, the cycle check and the unsubscription reach
\* is alive and stored in the sheet.
C22_NoDestroyedVisited ==
    last.op \in {"SetCell", "ClearCell"} =>
        \A i \in WalksOf({"check", "invalidate", "unsubscribe"}) :
            last.walks[i].dead = {}

====
